---- MODULE Spec2Model ----
(***************************************************************************)
(* Model of lab2_plusy/lab2.cpp: the thread-partitioned any_of             *)
(* (ParallelAnyOf) and the K-sweep of AnalyzePerformanceForCase.           *)
(*                                                                         *)
(* ParallelAnyOf is modelled at the granularity at which its threads can   *)
(* interleave: the calling thread allocates the result bits, computes the  *)
(* chunk size, launches one std::thread per non-empty partition, joins     *)
(* them and ORs the bits; every worker scans its chunk element by element  *)
(* and then assigns results[i].  results is a std::vector<bool>: its bits  *)
(* are packed into words and an assignment to one bit is a non-atomic      *)
(* load / modify / store of the whole word.                                *)
(***************************************************************************)
EXTENDS Integers, Sequences, FiniteSets, TLC

\* ---------------------------------------------------------------- bounds
MaxN == 3            \* longest sequence handed to a stand-alone call
ExtraK == 5          \* K ranges up to Len(vec) + ExtraK
MaxNegK == 1         \* K ranges down to -MaxNegK
MaxP == 2            \* largest hardware_concurrency() value
SweepMaxN == 1       \* longest sequence handed to the sweep
MaxDur == 1          \* measured durations are 0..MaxDur clock ticks
MaxWorstN == 4       \* longest worst-case array handed to a stand-alone call
MaxFairN == 2        \* longest sequence of a call under fair scheduling

\* ------------------------------------------------------ program constants
TARGET_VALUE == 2
DistribLo == 1
DistribHi == 3
VBITS == 32          \* bits per storage word of std::vector<bool> (MSVC)
RUNS == 3
DBL_MAX == 1000      \* numeric_limits<double>::max(), above every duration

Values == DistribLo..DistribHi

Min(a, b) == IF a < b THEN a ELSE b
Max(a, b) == IF a < b THEN b ELSE a

IsTarget(x) == x = TARGET_VALUE

\* std::any_of over the whole vector with IsTarget
AnyTarget(s) == \E k \in 1..Len(s) : IsTarget(s[k])

SeqsUpTo(S, n) == UNION { [1..m -> S] : m \in 0..n }

\* ------------------------------------------------------------- partitions
\* variant: the empty check never fires
IsEmptyVecNever(n) == n < 0

\* line 33
IsEmptyVec(n) == n = 0

\* variant: the chunk size rounded down
ChunkSizeFloor(n, k) == n \div k

\* line 37
ChunkSize(n, k) == (n + k - 1) \div k

PartStart(i, chunk) == i * chunk

PartEnd(i, chunk, n) == Min(PartStart(i, chunk) + chunk, n)

\* ------------------------------------------------- vector<bool> bit access
WordOf(i) == i \div VBITS

\* the word holding bit i, as read by a worker (other words are not read)
WordLoad(res, i) ==
    [k \in 1..Len(res) |-> IF WordOf(k - 1) = WordOf(i) THEN res[k] ELSE FALSE]

\* write back the word read earlier with bit i set or cleared
WordStore(res, snap, i, val) ==
    [k \in 1..Len(res) |->
        IF WordOf(k - 1) = WordOf(i)
        THEN (IF k - 1 = i THEN val ELSE snap[k])
        ELSE res[k]]

AnyBit(res) == \E k \in 1..Len(res) : res[k]

\* ------------------------------------------------------------------ state
VARIABLES
    vec,        \* the sequence searched
    K,          \* the fan-out argument of the current call
    pc,         \* position of the calling thread inside ParallelAnyOf
    results,    \* vector<bool> results(K, false)
    chunkSize,  \* size_t chunkSize
    li,         \* loop variable i of the launch loop
    threads,    \* vector<thread>: the lambda captures [i, start, end]
    jn,         \* number of threads already joined
    result,     \* value returned by ParallelAnyOf
    spawned,    \* threads created by the current call
    wpc,        \* per worker: "idle", "scan", "load", "store", "done"
    wpos,       \* per worker: next index any_of looks at
    wfound,     \* per worker: value any_of returned
    wword,      \* per worker: the word of results it loaded
    P,          \* maxThreads = thread::hardware_concurrency()
    spc,        \* position inside AnalyzePerformanceForCase
    K_values,   \* candidate K values
    kIdx,       \* index of the current candidate in K_values
    run,        \* loop variable run
    minTime,    \* best time of the current K
    durs,       \* durations measured for the current K
    bestTime,
    bestK,
    printed,    \* the "K=..: time" lines written so far
    ratio       \* the "Best K/P ratio" written at the end

callVars == <<pc, results, chunkSize, li, threads, jn, result, spawned,
              wpc, wpos, wfound, wword>>
sweepVars == <<P, spc, K_values, kIdx, run, minTime, durs,
               bestTime, bestK, printed, ratio>>
vars == <<vec, K, callVars, sweepVars>>

MaxSlots == Max(Max(MaxN + ExtraK, MaxWorstN + 1), Max(4 * MaxP, 8))
Slots == 0..(MaxSlots - 1)

NoWord == <<>>

Running(i) == wpc[i] \in {"scan", "load", "store"}

\* the locals of ParallelAnyOf before its first statement
FreshLocals ==
    /\ results = <<>>
    /\ chunkSize = 0
    /\ li = 0
    /\ threads = <<>>
    /\ jn = 0
    /\ result = FALSE
    /\ spawned = 0
    /\ wpc = [i \in Slots |-> "idle"]
    /\ wpos = [i \in Slots |-> 0]
    /\ wfound = [i \in Slots |-> FALSE]
    /\ wword = [i \in Slots |-> NoWord]

\* state of a call that has just been entered
CallEntry ==
    /\ pc = "entry"
    /\ FreshLocals

SweepIdle ==
    /\ P = 0
    /\ spc = "none"
    /\ K_values = <<>>
    /\ kIdx = 0
    /\ run = 0
    /\ minTime = DBL_MAX
    /\ durs = <<>>
    /\ bestTime = DBL_MAX
    /\ bestK = 0
    /\ printed = <<>>
    /\ ratio = [kind |-> "none"]

\* a stand-alone call ParallelAnyOf(vec, K, IsTarget)
Init ==
    /\ vec \in SeqsUpTo(Values, MaxN)
    /\ K \in (0 - MaxNegK)..(Len(vec) + ExtraK)
    /\ CallEntry
    /\ SweepIdle

\* ------------------------------------------------ ParallelAnyOf, caller
\* lines 32-35: empty check, then vector<bool> results(K, false); a
\* negative K converts to a size above max_size() and the constructor throws
Enter ==
    /\ pc = "entry"
    /\ IF IsEmptyVec(Len(vec))
       THEN /\ pc' = "returned"
            /\ result' = FALSE
            /\ UNCHANGED results
       ELSE IF K < 0
       THEN /\ pc' = "threw"
            /\ UNCHANGED <<result, results>>
       ELSE /\ pc' = "chunk"
            /\ results' = [k \in 1..K |-> FALSE]
            /\ UNCHANGED result
    /\ UNCHANGED <<vec, K, chunkSize, li, threads, jn, spawned,
                   wpc, wpos, wfound, wword, sweepVars>>

\* line 37; with K = 0 the division is undefined: the process traps or the
\* computation goes on with some value
ComputeChunk ==
    /\ pc = "chunk"
    /\ IF K = 0
       THEN \/ /\ pc' = "trapped"
               /\ UNCHANGED chunkSize
            \/ /\ pc' = "launch"
               /\ chunkSize' \in 0..Len(vec)
       ELSE /\ pc' = "launch"
            /\ chunkSize' = ChunkSize(Len(vec), K)
    /\ li' = 0
    /\ UNCHANGED <<vec, K, results, threads, jn, result, spawned,
                   wpc, wpos, wfound, wword, sweepVars>>

\* variant: no partition counts as empty
EmptyPartNever(i, chunk, n) == FALSE

\* line 42
EmptyPart(i, chunk, n) == PartStart(i, chunk) >= PartEnd(i, chunk, n)

\* the first index from i on whose partition is scheduled, k when none is
SkipTo(i, k, chunk, n) ==
    CHOOSE j \in i..k :
        /\ j = k \/ ~EmptyPart(j, chunk, n)
        /\ \A m \in i..(j - 1) : EmptyPart(m, chunk, n)

\* lines 39-42: an empty partition is not scheduled; the caller touches
\* nothing shared while it passes over a run of empty partitions, so the
\* run is one step
LaunchSkip ==
    /\ pc = "launch"
    /\ li < K
    /\ EmptyPart(li, chunkSize, Len(vec))
    /\ li' = SkipTo(li, K, chunkSize, Len(vec))
    /\ UNCHANGED <<vec, K, pc, results, chunkSize, threads, jn, result,
                   spawned, wpc, wpos, wfound, wword, sweepVars>>

\* lines 39-46: threads.emplace_back(lambda) starts the worker
LaunchWorker ==
    /\ pc = "launch"
    /\ li < K
    /\ ~EmptyPart(li, chunkSize, Len(vec))
    /\ threads' = Append(threads, [i |-> li,
                                   start |-> PartStart(li, chunkSize),
                                   end |-> PartEnd(li, chunkSize, Len(vec))])
    /\ spawned' = spawned + 1
    /\ wpc' = [wpc EXCEPT ![li] = "scan"]
    /\ wpos' = [wpos EXCEPT ![li] = PartStart(li, chunkSize)]
    /\ li' = li + 1
    /\ UNCHANGED <<vec, K, pc, results, chunkSize, jn, result,
                   wfound, wword, sweepVars>>

\* what unwinding does when emplace_back throws: ~vector<thread> destroys the
\* threads started so far; destroying a joinable std::thread calls
\* std::terminate, otherwise the exception leaves ParallelAnyOf
UnwindOutcome(ths) == IF Len(ths) = 0 THEN "threw" ELSE "terminated"

\* line 44: the std::thread constructor (or the vector growth) throws
LaunchFail ==
    /\ pc = "launch"
    /\ li < K
    /\ ~EmptyPart(li, chunkSize, Len(vec))
    /\ pc' = UnwindOutcome(threads)
    /\ UNCHANGED <<vec, K, results, chunkSize, li, threads, jn, result,
                   spawned, wpc, wpos, wfound, wword, sweepVars>>

\* line 39: the loop condition fails
LaunchDone ==
    /\ pc = "launch"
    /\ li >= K
    /\ pc' = "join"
    /\ jn' = 0
    /\ UNCHANGED <<vec, K, results, chunkSize, li, threads, result, spawned,
                   wpc, wpos, wfound, wword, sweepVars>>

\* variant: the thread is not waited for
JoinedNoWait(t) == TRUE

\* variant: the wait never ends
JoinedNever(t) == FALSE

\* t.join() returns once thread t has finished
Joined(t) == wpc[t.i] = "done"

\* lines 49-53
Join ==
    /\ pc = "join"
    /\ jn < Len(threads)
    /\ Joined(threads[jn + 1])
    /\ jn' = jn + 1
    /\ UNCHANGED <<vec, K, pc, results, chunkSize, li, threads, result,
                   spawned, wpc, wpos, wfound, wword, sweepVars>>

\* line 54
Return ==
    /\ pc = "join"
    /\ jn >= Len(threads)
    /\ result' = AnyBit(results)
    /\ pc' = "returned"
    /\ UNCHANGED <<vec, K, results, chunkSize, li, threads, jn, spawned,
                   wpc, wpos, wfound, wword, sweepVars>>

\* ------------------------------------------------ ParallelAnyOf, workers
ThreadOf(i) == CHOOSE t \in {threads[k] : k \in 1..Len(threads)} : t.i = i

\* variant: the scan also stops once another worker has found a match
ScanAtEndOrMatched(i) ==
    \/ wpos[i] >= ThreadOf(i).end
    \/ \E j \in Slots \ {i} :
          wpc[j] \in {"load", "store", "done"} /\ wfound[j]

\* line 45: any_of has reached vec.begin() + end
ScanAtEnd(i) == wpos[i] >= ThreadOf(i).end

\* line 45, any_of(vec.begin() + start, vec.begin() + end, predicate): one
\* step looks at one element and stops at the first match or at end
Scan(i) ==
    /\ wpc[i] = "scan"
    /\ pc \notin {"terminated", "trapped"}
    /\ IF ScanAtEnd(i)
       THEN /\ wfound' = [wfound EXCEPT ![i] = FALSE]
            /\ wpc' = [wpc EXCEPT ![i] = "load"]
            /\ UNCHANGED wpos
       ELSE IF IsTarget(vec[wpos[i] + 1])
       THEN /\ wfound' = [wfound EXCEPT ![i] = TRUE]
            /\ wpc' = [wpc EXCEPT ![i] = "load"]
            /\ UNCHANGED wpos
       ELSE /\ wpos' = [wpos EXCEPT ![i] = wpos[i] + 1]
            /\ UNCHANGED <<wfound, wpc>>
    /\ UNCHANGED <<vec, K, pc, results, chunkSize, li, threads, jn, result,
                   spawned, wword, sweepVars>>

\* line 45, results[i] = ...: the bit reference reads its word
Load(i) ==
    /\ wpc[i] = "load"
    /\ pc \notin {"terminated", "trapped"}
    /\ wword' = [wword EXCEPT ![i] = WordLoad(results, i)]
    /\ wpc' = [wpc EXCEPT ![i] = "store"]
    /\ UNCHANGED <<vec, K, pc, results, chunkSize, li, threads, jn, result,
                   spawned, wpos, wfound, sweepVars>>

\* line 45, results[i] = ...: the word is written back with bit i changed,
\* and the thread ends
Store(i) ==
    /\ wpc[i] = "store"
    /\ pc \notin {"terminated", "trapped"}
    /\ results' = WordStore(results, wword[i], i, wfound[i])
    /\ wword' = [wword EXCEPT ![i] = NoWord]
    /\ wpc' = [wpc EXCEPT ![i] = "done"]
    /\ UNCHANGED <<vec, K, pc, chunkSize, li, threads, jn, result,
                   spawned, wpos, wfound, sweepVars>>

CallNext ==
    \/ Enter
    \/ ComputeChunk
    \/ LaunchSkip
    \/ LaunchWorker
    \/ LaunchFail
    \/ LaunchDone
    \/ Join
    \/ Return
    \/ \E i \in Slots : Scan(i)
    \/ \E i \in Slots : Load(i)
    \/ \E i \in Slots : Store(i)

Next == CallNext

Spec == Init /\ [][Next]_vars

\* the steps of the calling thread and of worker i
Caller ==
    \/ Enter
    \/ ComputeChunk
    \/ LaunchSkip
    \/ LaunchWorker
    \/ LaunchFail
    \/ LaunchDone
    \/ Join
    \/ Return

Worker(i) == Scan(i) \/ Load(i) \/ Store(i)

\* a stand-alone call with a valid K, up to one above N
FairInit ==
    /\ vec \in SeqsUpTo(Values, MaxFairN)
    /\ K \in 1..(Len(vec) + 1)
    /\ CallEntry
    /\ SweepIdle

\* that call when the scheduler lets every thread that can run take a step
\* sooner or later
FairSpec ==
    /\ FairInit
    /\ [][Next]_vars
    /\ WF_vars(Caller)
    /\ \A i \in Slots : WF_vars(Worker(i))

\* ------------------------------------------------- scenario initializers
\* lines 57-66: every element is drawn from distrib(1, 3) until it is not
\* the target
FillRandomNonTarget(n) == [1..n -> Values \ {TARGET_VALUE}]

\* lines 68-72
InitializeWorstCase(n) == FillRandomNonTarget(n)

\* lines 74-79
InitializeBestCase(n) ==
    { IF n > 0 THEN [f EXCEPT ![1] = TARGET_VALUE] ELSE f :
        f \in FillRandomNonTarget(n) }

\* lines 81-86
InitializeAverageCase(n) ==
    { IF n > 0 THEN [f EXCEPT ![(n \div 2) + 1] = TARGET_VALUE] ELSE f :
        f \in FillRandomNonTarget(n) }

\* a stand-alone call on a worst-case array, with K up to one above N
WorstInit ==
    /\ \E n \in 0..MaxWorstN :
          /\ vec \in InitializeWorstCase(n)
          /\ K \in 1..(n + 1)
    /\ CallEntry
    /\ SweepIdle

WorstSpec == WorstInit /\ [][Next]_vars

ScenarioVecs(n) ==
    InitializeWorstCase(n) \cup InitializeBestCase(n)
        \cup InitializeAverageCase(n)

\* ------------------------------------------------------ candidate K values
MaxKOf(p) == Max(p * 4, 8)

RangeSeq(a, b) == [k \in 1..(b - a + 1) |-> a + k - 1]

\* variant: the loop stops one short of maxThreads
PushCandidatesShort(p) ==
    <<1>> \o RangeSeq(2, p - 1)
          \o (IF p > 1 THEN <<p * 2, MaxKOf(p)>> ELSE <<>>)

\* lines 107-112: the push_backs, in order
PushCandidates(p) ==
    <<1>> \o RangeSeq(2, p)
          \o (IF p > 1 THEN <<p * 2, MaxKOf(p)>> ELSE <<>>)

RECURSIVE InsertSorted(_, _)
InsertSorted(s, x) ==
    IF s = <<>> THEN <<x>>
    ELSE IF x < Head(s) THEN <<x>> \o s
    ELSE <<Head(s)>> \o InsertSorted(Tail(s), x)

\* line 113: std::sort
RECURSIVE SortAscending(_)
SortAscending(s) ==
    IF s = <<>> THEN <<>>
    ELSE InsertSorted(SortAscending(Tail(s)), Head(s))

\* line 114: erase(unique(...)) drops an element equal to its predecessor
RECURSIVE Unique(_)
Unique(s) ==
    IF Len(s) <= 1 THEN s
    ELSE IF s[1] = s[2] THEN Unique(Tail(s))
    ELSE <<s[1]>> \o Unique(Tail(s))

BuildKValues(p) == Unique(SortAscending(PushCandidates(p)))

\* variant: every K above N is skipped
SkipCandidateAboveN(k, n, p) == k > n

\* line 123
SkipCandidate(k, n, p) == k > n /\ k > p * 2

\* ----------------------------------------------- AnalyzePerformanceForCase
Durations == 0..MaxDur

\* variant: the last duration replaces the minimum
KeepLast(minT, cur) == cur

\* line 128: minTime = min(minTime, currentTime)
KeepMin(minT, cur) == Min(minT, cur)

NoCall ==
    /\ pc = "idle"
    /\ FreshLocals

\* AnalyzePerformanceForCase(caseName, vec) on a scenario array
SweepInit ==
    /\ \E n \in 0..SweepMaxN : vec \in ScenarioVecs(n)
    /\ P \in 0..MaxP
    /\ K = 0
    /\ NoCall
    /\ spc = "start"
    /\ K_values = <<>>
    /\ kIdx = 0
    /\ run = 0
    /\ minTime = DBL_MAX
    /\ durs = <<>>
    /\ bestTime = DBL_MAX
    /\ bestK = 0
    /\ printed = <<>>
    /\ ratio = [kind |-> "none"]

\* lines 107-117
Prepare ==
    /\ spc = "start"
    /\ K_values' = BuildKValues(P)
    /\ bestTime' = DBL_MAX
    /\ bestK' = 0
    /\ kIdx' = 1
    /\ spc' = "loop"
    /\ UNCHANGED <<vec, K, callVars, P, run, minTime, durs,
                   printed, ratio>>

\* lines 122-123: continue
SkipK ==
    /\ spc = "loop"
    /\ kIdx <= Len(K_values)
    /\ SkipCandidate(K_values[kIdx], Len(vec), P)
    /\ kIdx' = kIdx + 1
    /\ UNCHANGED <<vec, K, callVars, P, spc, K_values, run, minTime, durs,
                   bestTime, bestK, printed, ratio>>

\* lines 122-126
BeginK ==
    /\ spc = "loop"
    /\ kIdx <= Len(K_values)
    /\ ~SkipCandidate(K_values[kIdx], Len(vec), P)
    /\ minTime' = DBL_MAX
    /\ run' = 0
    /\ durs' = <<>>
    /\ spc' = "runs"
    /\ UNCHANGED <<vec, K, callVars, P, K_values, kIdx, bestTime, bestK,
                   printed, ratio>>

\* lines 126-127 and 22-23: the clock is read and ParallelAnyOf is entered
StartRun ==
    /\ spc = "runs"
    /\ run < RUNS
    /\ K' = K_values[kIdx]
    /\ pc' = "entry"
    /\ results' = <<>>
    /\ chunkSize' = 0
    /\ li' = 0
    /\ threads' = <<>>
    /\ jn' = 0
    /\ result' = FALSE
    /\ spawned' = 0
    /\ wpc' = [i \in Slots |-> "idle"]
    /\ wpos' = [i \in Slots |-> 0]
    /\ wfound' = [i \in Slots |-> FALSE]
    /\ wword' = [i \in Slots |-> NoWord]
    /\ spc' = "measuring"
    /\ UNCHANGED <<vec, P, K_values, kIdx, run, minTime, durs,
                   bestTime, bestK, printed, ratio>>

\* lines 24-25 and 127-128: the call has returned, the clock is read again
EndRun ==
    /\ spc = "measuring"
    /\ pc = "returned"
    /\ \E currentTime \in Durations :
          /\ minTime' = KeepMin(minTime, currentTime)
          /\ durs' = Append(durs, currentTime)
    /\ run' = run + 1
    /\ spc' = "runs"
    /\ UNCHANGED <<vec, K, callVars, P, K_values, kIdx, bestTime, bestK,
                   printed, ratio>>

\* an exception leaving ParallelAnyOf is caught nowhere up to main
Uncaught ==
    /\ spc = "measuring"
    /\ pc = "threw"
    /\ spc' = "aborted"
    /\ UNCHANGED <<vec, K, callVars, P, K_values, kIdx, run, minTime, durs,
                   bestTime, bestK, printed, ratio>>

\* variant: a tie replaces the best K
ImprovesOrTies(minT, bestT) == minT <= bestT

\* line 133
Improves(minT, bestT) == minT < bestT

\* lines 126, 131-136
RecordK ==
    /\ spc = "runs"
    /\ run >= RUNS
    /\ printed' = Append(printed, [K |-> K_values[kIdx], time |-> minTime])
    /\ IF Improves(minTime, bestTime)
       THEN /\ bestTime' = minTime
            /\ bestK' = K_values[kIdx]
       ELSE UNCHANGED <<bestTime, bestK>>
    /\ kIdx' = kIdx + 1
    /\ spc' = "loop"
    /\ UNCHANGED <<vec, K, callVars, P, K_values, run, minTime, durs,
                   ratio>>

\* line 141: (double)bestK / maxThreads
\* a double division: by zero it gives NaN for 0/0 and infinity otherwise
Ratio(k, p) ==
    IF p = 0
    THEN (IF k = 0 THEN [kind |-> "nan"] ELSE [kind |-> "inf"])
    ELSE [kind |-> "real", num |-> k, den |-> p]

\* lines 122, 139-141
Report ==
    /\ spc = "loop"
    /\ kIdx > Len(K_values)
    /\ ratio' = Ratio(bestK, P)
    /\ spc' = "done"
    /\ UNCHANGED <<vec, K, callVars, P, K_values, kIdx, run, minTime, durs,
                   bestTime, bestK, printed>>

SweepNext ==
    \/ Prepare
    \/ SkipK
    \/ BeginK
    \/ StartRun
    \/ EndRun
    \/ Uncaught
    \/ RecordK
    \/ Report
    \/ CallNext

SweepSpec == SweepInit /\ [][SweepNext]_vars

\* ================================================================ claims
Launched == { threads[k].i : k \in 1..Len(threads) }

\* C1: a call on a non-empty sequence with K >= 1 returns true exactly when
\* some element of the sequence is the target, whatever the interleaving.
C1_AnyOfCorrect ==
    (pc = "returned" /\ Len(vec) > 0 /\ K >= 1)
        => (result <=> AnyTarget(vec))

\* C2: no data race between the workers of one call: two workers are never
\* both inside the read-modify-write of the same storage word, and the
\* value a finished worker stored in its slot is still there while the call
\* runs.
C2_NoDataRace ==
    /\ \A i, j \in Slots :
          (i # j /\ wpc[i] = "store" /\ wpc[j] = "store")
              => WordOf(i) # WordOf(j)
    /\ \A j \in Slots :
          (wpc[j] = "done" /\ pc \in {"launch", "join"})
              => results[j + 1] = wfound[j]

\* C3: a call with K <= 0 fails fast: it never gets to the launch loop and
\* never returns a boolean, on an empty sequence as on any other.
C3_FailFast ==
    (K <= 0 /\ spc = "none")
        => pc \in {"entry", "chunk", "threw", "trapped"}

RECURSIVE SumLengths(_)
SumLengths(ths) ==
    IF ths = <<>> THEN 0
    ELSE (Head(ths).end - Head(ths).start) + SumLengths(Tail(ths))

Covers(ths, n) ==
    /\ \A k \in 1..Len(ths) : ths[k].start < ths[k].end /\ ths[k].end <= n
    /\ Len(ths) = 0 => n = 0
    /\ Len(ths) > 0 => ths[1].start = 0 /\ ths[Len(ths)].end = n
    /\ \A k \in 1..(Len(ths) - 1) : ths[k].end = ths[k + 1].start
    /\ SumLengths(ths) = n

\* C4: for K >= 1 the partitions scheduled by a call, in launch order, are
\* non-empty, contiguous from 0 to N without gap or overlap, and their
\* lengths sum to N.
C4_PartitionsCover ==
    (K >= 1 /\ pc \in {"join", "returned"}) => Covers(threads, Len(vec))

C4_Witness ==
    /\ pc = "join"
    /\ Len(vec) = 3
    /\ K = 2
    /\ Len(threads) = 2
    /\ threads[2].end - threads[2].start = 1

\* C5: join barrier: when the call has returned or thrown, no worker it
\* launched is still running.
C5_JoinBarrier ==
    pc \in {"returned", "threw"} => \A i \in Slots : ~Running(i)

C5_Witness ==
    /\ pc = "returned"
    /\ spawned >= 2
    /\ \A i \in Launched : wpc[i] = "done"

\* C6: on an empty sequence a call with K >= 1 returns false at once:
\* nothing is allocated and no worker is launched.
C6_EmptyFalse ==
    (Len(vec) = 0 /\ K >= 1 /\ pc \notin {"idle", "entry"})
        => (pc = "returned" /\ result = FALSE /\ spawned = 0
            /\ results = <<>> /\ threads = <<>>)

C6_Witness ==
    /\ Len(vec) = 0
    /\ K >= 2
    /\ pc = "returned"
    /\ result = FALSE

\* what the call returns when every worker runs alone, one after the other
SerialResult(s, k) ==
    \E i \in 0..(k - 1) :
        \E x \in PartStart(i, ChunkSize(Len(s), k))
                    ..(PartEnd(i, ChunkSize(Len(s), k), Len(s)) - 1) :
            IsTarget(s[x + 1])

\* C7: the returned boolean does not depend on the schedule: every execution
\* of a call with K >= 1 returns what the execution in which the workers
\* run one after the other returns.
C7_ScheduleIndependent ==
    (pc = "returned" /\ K >= 1) => (result <=> SerialResult(vec, K))

\* C8: when creating a worker thread fails, the call is left by an exception
\* that reaches its caller, on the first worker as on a later one.
C8_FailurePropagates ==
    [][(pc = "launch" /\ pc' \notin {"launch", "join"}) => pc' = "threw"]_vars

SeqRange(s) == { s[k] : k \in 1..Len(s) }

CandidateSet(p) ==
    {1} \cup 2..p \cup (IF p > 1 THEN {2 * p, Max(4 * p, 8)} ELSE {})

\* C9: the candidate K values are {1}, 2..P and, for P > 1, 2P and
\* max(4P, 8), strictly ascending and containing 1; for P = 4 they are
\* 1, 2, 3, 4, 8, 16.
C9_CandidateSet ==
    spc \notin {"none", "start"} =>
        /\ SeqRange(K_values) = CandidateSet(P)
        /\ \A k \in 1..(Len(K_values) - 1) : K_values[k] < K_values[k + 1]
        /\ 1 \in SeqRange(K_values)
        /\ BuildKValues(4) = <<1, 2, 3, 4, 8, 16>>

C9_Witness ==
    /\ spc = "loop"
    /\ P = 2
    /\ K_values = <<1, 2, 4, 8>>

RECURSIVE MinOfSeq(_)
MinOfSeq(s) ==
    IF Len(s) = 1 THEN s[1]
    ELSE Min(s[1], MinOfSeq(Tail(s)))

\* C10: the time written for a candidate K is the smallest of exactly three
\* measured durations.
C10_BestOfThree ==
    (spc \in {"loop", "done"} /\ printed # <<>>)
        => /\ Len(durs) = 3
           /\ printed[Len(printed)].time = MinOfSeq(durs)

C10_Witness ==
    /\ spc = "loop"
    /\ printed # <<>>
    /\ durs = <<1, 0, 1>>
    /\ printed[Len(printed)].time = 0

PrintedKs == { printed[k].K : k \in 1..Len(printed) }

\* C11: a candidate K is passed over exactly when K > N and K > 2P: every
\* candidate the loop is done with has a line iff it is not such a K, and
\* ParallelAnyOf is never running with such a K.
C11_SkipExactly ==
    /\ \A idx \in 1..Len(K_values) :
          idx < kIdx =>
              (K_values[idx] \in PrintedKs
                  <=> ~(K_values[idx] > Len(vec) /\ K_values[idx] > 2 * P))
    /\ spc = "measuring" => ~(K > Len(vec) /\ K > 2 * P)

C11_Witness ==
    /\ spc = "done"
    /\ P = 2
    /\ Len(vec) = 1
    /\ PrintedKs = {1, 2, 4}
    /\ 8 \in SeqRange(K_values)

\* C12: at the end of the sweep the best time is the smallest time written
\* for any K, and the best K is the smallest K written with that time.
C12_GlobalBest ==
    (spc = "done" /\ printed # <<>>)
        => /\ \A k \in 1..Len(printed) : bestTime <= printed[k].time
           /\ \E k \in 1..Len(printed) :
                 /\ printed[k].K = bestK
                 /\ printed[k].time = bestTime
           /\ \A k \in 1..Len(printed) :
                 printed[k].time = bestTime => bestK <= printed[k].K

C12_Witness ==
    /\ spc = "done"
    /\ Len(printed) = 3
    /\ printed[1].time = 1
    /\ printed[2].time = 0
    /\ printed[3].time = 0
    /\ bestK = printed[2].K

ScanOver(i) == wpc[i] \in {"load", "store", "done"}

\* indices 0..k-1 whose partition of a sequence of length n is not empty
NonEmptyIdx(n, k) == { i \in 0..(k - 1) : i * ((n + k - 1) \div k) < n }

\* C13: no cancellation across workers: a worker whose scan is over stopped
\* at the first match of its own partition or at the end of its partition,
\* whatever the other workers found, and once the launch loop is over every
\* non-empty partition has its worker.
C13_NoCancellation ==
    /\ \A i \in Slots :
          ScanOver(i) =>
              IF wfound[i]
              THEN /\ wpos[i] < ThreadOf(i).end
                   /\ IsTarget(vec[wpos[i] + 1])
              ELSE wpos[i] = ThreadOf(i).end
    /\ (K >= 1 /\ pc \in {"join", "returned"})
          => \A i \in NonEmptyIdx(Len(vec), K) : wpc[i] # "idle"

C13_Witness ==
    /\ pc = "returned"
    /\ \E i, j \in Launched :
          /\ i # j
          /\ wfound[i]
          /\ ~wfound[j]
          /\ wpc[j] = "done"
          /\ wpos[j] = ThreadOf(j).end
          /\ ThreadOf(j).end - ThreadOf(j).start >= 1

PartHasMatch(t) == \E x \in t.start..(t.end - 1) : IsTarget(vec[x + 1])

\* C14: a worker looks only at indices of its own partition, in increasing
\* order, and at none after its first match; the slot of a finished worker
\* is true iff its partition contains a match.
C14_ScanOwnPartition ==
    \A i \in Launched :
        /\ ThreadOf(i).start <= wpos[i]
        /\ wpos[i] <= ThreadOf(i).end
        /\ \A x \in ThreadOf(i).start..(wpos[i] - 1) : ~IsTarget(vec[x + 1])
        /\ wfound[i] => wpos[i] < ThreadOf(i).end
        /\ (wpc[i] = "done" /\ pc \in {"launch", "join", "returned"})
              => (results[i + 1] <=> PartHasMatch(ThreadOf(i)))

\* C16: for K >= 1 a call starts one worker for each non-empty partition
\* and none for an empty one, and never has more than min(K, N) workers
\* running.
C16_WorkerBound ==
    K >= 1 =>
        /\ Cardinality({ i \in Slots : Running(i) }) <= Min(K, Len(vec))
        /\ Len(threads) = spawned
        /\ Cardinality(Launched) = Len(threads)
        /\ Launched \subseteq NonEmptyIdx(Len(vec), K)
        /\ pc \in {"join", "returned"}
              => Launched = NonEmptyIdx(Len(vec), K)

C16_Witness ==
    /\ K = 5
    /\ Len(vec) = 3
    /\ pc = "join"
    /\ Cardinality({ i \in Slots : Running(i) }) = 3

CeilDiv(a, b) == (a + b - 1) \div b

\* C15 as stated: for 1 <= K <= N no partition is skipped and exactly K
\* workers are launched.
C15_ExactlyKWorkers ==
    (1 <= K /\ K <= Len(vec) /\ pc \in {"join", "returned"})
        => (spawned = K /\ Launched = 0..(K - 1))

\* C15 as amended: for 1 <= K <= N the workers launched are those of the
\* first ceil(N / ceil(N / K)) partitions, at most K of them; the remaining
\* indices are skipped, and for K > N exactly N workers are launched.
C15_WorkersLaunched ==
    (1 <= K /\ Len(vec) >= 1 /\ pc \in {"join", "returned"})
        => /\ spawned = CeilDiv(Len(vec), CeilDiv(Len(vec), K))
           /\ spawned <= K
           /\ Launched = 0..(spawned - 1)
           /\ K > Len(vec) => spawned = Len(vec)

C15_Witness ==
    /\ pc = "join"
    /\ Len(vec) = 4
    /\ K = 3
    /\ spawned = 2
    /\ Launched = {0, 1}

\* C17: the sweep is sequential: a call is entered only when no call is in
\* progress and no worker of an earlier call is running, and the candidates
\* are measured in ascending order of K.
C17_Sequential ==
    /\ [][(pc' = "entry" /\ pc # "entry")
            => (pc \in {"idle", "returned"}
                /\ \A i \in Slots : ~Running(i))]_vars
    /\ [](/\ \A k \in 1..(Len(printed) - 1) :
                printed[k].K < printed[k + 1].K
          /\ spc = "measuring" => \A k \in PrintedKs : k < K)

C17_Witness ==
    /\ spc = "measuring"
    /\ printed # <<>>
    /\ Len(durs) = 2
    /\ pc = "join"
    /\ \E i \in Slots : Running(i)

OnlyFill(v, skip) ==
    \A k \in 1..Len(v) : k # skip => v[k] \in {1, 3}

\* C18: for N > 0 the worst-case array holds no target, the best-case array
\* holds its only target at index 0 and the average-case array at index
\* N/2, every other element being 1 or 3; a call with K >= 1 returns false
\* on a worst-case array and true on a best- or average-case array.
C18_Scenarios ==
    /\ \A n \in 1..MaxN :
          /\ \A v \in InitializeWorstCase(n) : OnlyFill(v, 0)
          /\ \A v \in InitializeBestCase(n) :
                v[1] = 2 /\ OnlyFill(v, 1)
          /\ \A v \in InitializeAverageCase(n) :
                v[(n \div 2) + 1] = 2 /\ OnlyFill(v, (n \div 2) + 1)
    /\ (pc = "returned" /\ K >= 1 /\ Len(vec) > 0)
          => /\ vec \in InitializeWorstCase(Len(vec)) => ~result
             /\ vec \in InitializeBestCase(Len(vec)) => result
             /\ vec \in InitializeAverageCase(Len(vec)) => result

\* C20: at the end of the sweep at least one candidate was measured, the
\* best K is one of the candidates and the ratio bestK / P is a real number.
C20_BestKDefined ==
    spc = "done"
        => /\ printed # <<>>
           /\ bestK >= 1
           /\ bestK \in SeqRange(K_values)
           /\ ratio.kind = "real"

\* C19 as stated: every call with K >= 1 eventually returns.
C19_AlwaysReturns == K >= 1 => <>(pc = "returned")

\* C19 as amended: a call with K >= 1 eventually ends, by returning or, when
\* a thread creation fails, by the exception or the termination that
\* follows; once all its workers are launched it eventually returns.
C19_EventuallyEnds ==
    /\ K >= 1 => <>(pc \in {"returned", "threw", "terminated"})
    /\ (K >= 1 /\ pc = "join") ~> (pc = "returned")

C19_Witness ==
    /\ K >= 2
    /\ pc = "returned"
    /\ spawned >= 2
    /\ jn = spawned

====
